---- MODULE Spec2Model ----
(***************************************************************************)
(* A model of the value-function solver of respy / robupy:                 *)
(*   - robupy/python/py/auxiliary.py: simulate_emax, get_total_value,      *)
(*     _get_future_payoffs, _stabilize_myopic (SpecEmax);                  *)
(*   - respy/interpolate.py: the Keane-Wolpin interpolation                *)
(*     (SpecSplit, SpecIndicator, SpecPredict).                            *)
(* Money values are integers.  The discount factor delta is held as a      *)
(* number of halves (0, 1/2, 1), and every continuation value is even, so   *)
(* that delta * value is an integer.                                       *)
(***************************************************************************)
EXTENDS Integers, Sequences, FiniteSets, TLC

VARIABLES
    \* ---- auxiliary.py: the arguments of simulate_emax
    period, k, delta, payoffs_systematic, eps_relevant_emax, num_draws,
    periods_emax,
    \* ---- auxiliary.py: the locals of simulate_emax
    i, emax_simulated, total_payoffs, payoffs_ex_post, future_payoffs,
    emax_pc, emax_returned,
    \* every cell <<row, index>> of periods_emax read so far, and the table
    \* as it was passed in
    emax_reads, emax_passed,
    \* ---- interpolate.py: options and the process-wide generator of np.random
    options, rng,
    \* ---- interpolate.py: kw_94_interpolation and
    \* _split_interpolation_points_evenly
    dense_key_to_n_states, seeds, dense_key_to_interpolation_points,
    interpolation_points, n_states, dense_key, drawn, warned, not_interpolated,
    split_pc,
    \* ---- interpolate.py: two calls of _get_not_interpolated_indicator
    calls,
    \* ---- interpolate.py: the linear model of one dense key
    value_functions, expected_value_functions, mask, exogenous,
    max_value_functions, endogenous, beta, predictions, beta_warned, predict_pc,
    \* ---- clsRespy.py: the attr dictionary of a RespyCls instance, and the
    \* last method called on it
    attr, cls_op,
    \* ---- clsRespy.py: fit in two processes that share a working directory:
    \* the position of each process, the RespyCls instance of each, whether
    \* each has registered remove_scratch with atexit, and the files
    \* '.estimation.respy.scratch' and 'est.respy.log' of the directory
    fit_pc, fit_attr, atexit_registered, scratch, est_log

emaxVars == <<period, k, delta, payoffs_systematic, eps_relevant_emax,
              num_draws, periods_emax, i, emax_simulated, total_payoffs,
              payoffs_ex_post, future_payoffs, emax_pc, emax_returned,
              emax_reads, emax_passed>>

splitVars == <<options, rng, dense_key_to_n_states, seeds,
               dense_key_to_interpolation_points, interpolation_points,
               n_states, dense_key, drawn, warned, not_interpolated, split_pc>>

predictVars == <<value_functions, expected_value_functions, mask, exogenous,
                 max_value_functions, endogenous, beta, predictions,
                 beta_warned, predict_pc>>

respyVars == <<attr, cls_op, fit_pc, fit_attr, atexit_registered, scratch, est_log>>

vars == <<emaxVars, splitVars, calls, predictVars, respyVars>>

(***************************************************************************)
(* Bounds and constants                                                    *)
(***************************************************************************)
\* the horizon
num_periods == 3
\* the largest number of draws per state
MaxDraws == 2
\* years of schooling at the start, and the largest number of additional years
edu_start == 10
MaxEdu == 1
edu_max == edu_start + MaxEdu
\* the sentinel of an inadmissible alternative
HUGE_FLOAT == 1000000
\* the largest number of dense keys of a period, and of states of a dense key
MaxKeys == 2
MaxStates == 4
\* the largest number of states of the dense key a linear model is fitted for
MaxModelStates == 3
\* the largest configured options["interpolation_points"]
MaxPoints == 7
\* the first seeds options["solution_seed_iteration"] may start from
MaxSeed == 2
\* the number of states of a large dense key: more than 100 times the points
\* a dense key can receive
ManyStates == 400

\* the value of a local name that is not bound yet (dense keys start at 1)
Unbound == 0

Alts == 0 .. 3
Periods == 0 .. (num_periods - 1)
NoValue == "nan"

Vec(a, b, c, d) == [j \in Alts |-> CASE j = 0 -> a [] j = 1 -> b [] j = 2 -> c [] OTHER -> d]

\* systematic payoffs of the four alternatives
PayVals == {1, 2}
PayoffVectors == [Alts -> PayVals]
\* one row of disturbances: a factor for the two occupations, a summand for
\* schooling and home
DrawRows == {Vec(1, 1, 0, 0), Vec(2, 2, -1, -1), Vec(1, 1, 1, 1)}
\* the discount factor, in halves
DeltaVals == {0, 1, 2}

(***************************************************************************)
(* The state space of a period (robupy.solve, not part of src/): the       *)
(* admissible tuples (exp_a, exp_b, edu, edu_lagged), and their dense       *)
(* index within the period.                                                *)
(***************************************************************************)
StateSet(p) ==
    {s \in (0 .. p) \X (0 .. p) \X (0 .. p) \X {0, 1} :
        /\ s[1] + s[2] + s[3] <= p
        /\ ~(s[4] = 0 /\ p = 0)
        /\ ~(s[4] = 1 /\ s[3] = 0 /\ p > 0)
        /\ ~(s[4] = 0 /\ s[3] = p)
        /\ s[3] <= edu_max - edu_start}

StateLess(s, t) ==
    \E n \in 1 .. 4 : s[n] < t[n] /\ \A m \in 1 .. (n - 1) : s[m] = t[m]

\* a function as a table of its values, computed once
Table(f) == f @@ <<>>

\* mapping_state_idx[period, exp_a, exp_b, edu, edu_lagged]
mapping_state_idx ==
    Table([p \in Periods |->
        Table([s \in StateSet(p) |-> Cardinality({t \in StateSet(p) : StateLess(t, s)})])])

\* states_all[period, k, :]
states_all ==
    Table([p \in Periods |->
        Table([kk \in 0 .. (Cardinality(StateSet(p)) - 1) |->
            CHOOSE s \in StateSet(p) : mapping_state_idx[p][s] = kk])])

\* the tables of continuation values the solver may pass in: one row per
\* period, one even value per state of the period
EmaxTables ==
    {[p \in Periods |->
        [kk \in 0 .. (Cardinality(StateSet(p)) - 1) |-> 2 * ((t * kk + p) % 3)]] :
     t \in {0, 1}}

\* no interpolation is under way
SplitIdle ==
    /\ options = NoValue /\ rng = 0 /\ dense_key_to_n_states = <<>>
    /\ seeds = <<>> /\ dense_key_to_interpolation_points = <<>>
    /\ interpolation_points = 0 /\ n_states = <<>> /\ dense_key = Unbound
    /\ drawn = 0 /\ warned = FALSE /\ not_interpolated = <<>>
    /\ split_pc = "idle"

\* no linear model is being fitted
PredictIdle ==
    /\ value_functions = <<>> /\ expected_value_functions = <<>>
    /\ mask = <<>> /\ exogenous = <<>> /\ max_value_functions = <<>>
    /\ endogenous = <<>> /\ beta = <<>> /\ predictions = <<>>
    /\ beta_warned = FALSE /\ predict_pc = "idle"

\* no RespyCls instance is in use, and no estimation is under way
RespyIdle ==
    /\ attr = <<>> /\ cls_op = <<>>
    /\ fit_pc = <<>> /\ fit_attr = <<>> /\ atexit_registered = <<>>
    /\ scratch = FALSE /\ est_log = FALSE

(***************************************************************************)
(* auxiliary.py                                                            *)
(***************************************************************************)
\* delta * x for delta held in halves
Discounted(d, x) == (d * x) \div 2

Maximum(f) == CHOOSE m \in {f[j] : j \in DOMAIN f} : \A j \in DOMAIN f : f[j] <= m

\* (variant of future_cells: staying at home reads the state's own cell of
\* its own period)
future_cells_own_row(per, kk) ==
    LET s == states_all[per][kk]
        exp_a == s[1]
        exp_b == s[2]
        edu == s[3]
    IN [j \in Alts |->
          CASE j = 0 -> <<per + 1, mapping_state_idx[per + 1][<<exp_a + 1, exp_b, edu, 0>>]>>
            [] j = 1 -> <<per + 1, mapping_state_idx[per + 1][<<exp_a, exp_b + 1, edu, 0>>]>>
            [] j = 2 -> IF edu < edu_max - edu_start
                        THEN <<per + 1, mapping_state_idx[per + 1][<<exp_a, exp_b, edu + 1, 1>>]>>
                        ELSE <<>>
            [] OTHER -> <<per, kk>>]

\* The cell <<row, index>> of periods_emax that _get_future_payoffs reads for
\* each alternative; <<>> where it reads none.
future_cells(per, kk) ==
    LET s == states_all[per][kk]
        exp_a == s[1]
        exp_b == s[2]
        edu == s[3]
    IN [j \in Alts |->
          CASE j = 0 -> <<per + 1, mapping_state_idx[per + 1][<<exp_a + 1, exp_b, edu, 0>>]>>
            [] j = 1 -> <<per + 1, mapping_state_idx[per + 1][<<exp_a, exp_b + 1, edu, 0>>]>>
            [] j = 2 -> IF edu < edu_max - edu_start
                        THEN <<per + 1, mapping_state_idx[per + 1][<<exp_a, exp_b, edu + 1, 1>>]>>
                        ELSE <<>>
            [] OTHER -> <<per + 1, mapping_state_idx[per + 1][<<exp_a, exp_b, edu, 0>>]>>]

_get_future_payoffs(per, emax, kk) ==
    LET cells == future_cells(per, kk)
    IN [j \in Alts |->
          IF cells[j] = <<>> THEN -HUGE_FLOAT ELSE emax[cells[j][1]][cells[j][2]]]

\* (variant of _stabilize_myopic: no replacement)
_stabilize_myopic_off(total, future) == total

\* (variant of _stabilize_myopic: the replacement without its condition)
_stabilize_myopic_always(total, future) == [total EXCEPT ![2] = -HUGE_FLOAT]

_stabilize_myopic(total, future) ==
    LET is_huge == (future[2] = -HUGE_FLOAT)
    IN IF is_huge THEN [total EXCEPT ![2] = -HUGE_FLOAT] ELSE total

\* (variant of get_total_value: every disturbance is added)
get_total_value_additive(per, d, systematic, disturbances, emax, kk) ==
    LET is_myopic == (d = 0)
        ex_post == [j \in Alts |-> systematic[j] + disturbances[j]]
        last == ~(per # num_periods - 1)
        future == IF ~last THEN _get_future_payoffs(per, emax, kk)
                           ELSE [j \in Alts |-> 0]
        total == [j \in Alts |-> ex_post[j] + Discounted(d, future[j])]
    IN [total |-> IF is_myopic THEN _stabilize_myopic(total, future) ELSE total,
        ex_post |-> ex_post,
        future |-> future,
        reads |-> IF ~last
                  THEN {future_cells(per, kk)[j] : j \in Alts} \ {<<>>}
                  ELSE {}]

\* get_total_value: total_payoffs, payoffs_ex_post, future_payoffs, and the
\* cells of periods_emax that were read
get_total_value(per, d, systematic, disturbances, emax, kk) ==
    LET is_myopic == (d = 0)
        ex_post == [j \in Alts |->
                      IF j \in {0, 1} THEN systematic[j] * disturbances[j]
                                      ELSE systematic[j] + disturbances[j]]
        last == ~(per # num_periods - 1)
        future == IF ~last THEN _get_future_payoffs(per, emax, kk)
                           ELSE [j \in Alts |-> 0]
        total == [j \in Alts |-> ex_post[j] + Discounted(d, future[j])]
    IN [total |-> IF is_myopic THEN _stabilize_myopic(total, future) ELSE total,
        ex_post |-> ex_post,
        future |-> future,
        reads |-> IF ~last
                  THEN {future_cells(per, kk)[j] : j \in Alts} \ {<<>>}
                  ELSE {}]

GCD(a, b) == CHOOSE g \in 1 .. b : a % g = 0 /\ b % g = 0
                 /\ \A h \in (g + 1) .. b : ~(a % h = 0 /\ b % h = 0)
Abs(x) == IF x < 0 THEN -x ELSE x
\* x / n as a fraction in lowest terms
Quotient(x, n) == <<x \div GCD(Abs(x), n), n \div GCD(Abs(x), n)>>

\* no simulate_emax call is under way
EmaxIdle ==
    /\ period = 0 /\ k = 0 /\ delta = 0 /\ num_draws = 0 /\ i = 0
    /\ payoffs_systematic = NoValue /\ eps_relevant_emax = NoValue
    /\ periods_emax = NoValue /\ emax_passed = NoValue
    /\ emax_simulated = 0 /\ total_payoffs = NoValue /\ payoffs_ex_post = 0
    /\ future_payoffs = 0 /\ emax_pc = "idle" /\ emax_returned = NoValue
    /\ emax_reads = {}

EmaxInit ==
    /\ SplitIdle /\ calls = <<>> /\ PredictIdle /\ RespyIdle
    /\ period \in Periods
    /\ k \in DOMAIN states_all[period]
    /\ delta \in DeltaVals
    /\ payoffs_systematic \in PayoffVectors
    /\ num_draws \in 1 .. MaxDraws
    /\ eps_relevant_emax \in [0 .. (num_draws - 1) -> DrawRows]
    /\ periods_emax \in EmaxTables
    /\ emax_passed = periods_emax
    /\ i = 0
    /\ emax_simulated = 0
    /\ total_payoffs = NoValue
    /\ payoffs_ex_post = 0
    /\ future_payoffs = 0
    /\ emax_pc = "loop"
    /\ emax_returned = NoValue
    /\ emax_reads = {}

\* one pass of the loop over the draws
EmaxDraw ==
    /\ emax_pc = "loop"
    /\ i < num_draws
    /\ \E v \in {get_total_value(period, delta, payoffs_systematic,
                                  eps_relevant_emax[i], periods_emax, k)} :
       LET maximum == Maximum(v.total)
       IN /\ total_payoffs' = v.total
          /\ payoffs_ex_post' = v.ex_post
          /\ future_payoffs' = v.future
          /\ emax_reads' = emax_reads \cup v.reads
          /\ emax_simulated' = emax_simulated + maximum
    /\ i' = i + 1
    /\ UNCHANGED <<period, k, delta, payoffs_systematic, eps_relevant_emax,
                   num_draws, periods_emax, emax_pc, emax_returned, emax_passed>>
    /\ UNCHANGED <<splitVars, calls, predictVars, respyVars>>

\* the scaling and the return
EmaxReturn ==
    /\ emax_pc = "loop"
    /\ i = num_draws
    /\ emax_returned' = Quotient(emax_simulated, num_draws)
    /\ emax_pc' = "done"
    /\ UNCHANGED <<period, k, delta, payoffs_systematic, eps_relevant_emax,
                   num_draws, periods_emax, i, emax_simulated, total_payoffs,
                   payoffs_ex_post, future_payoffs, emax_reads, emax_passed>>
    /\ UNCHANGED <<splitVars, calls, predictVars, respyVars>>

EmaxNext == EmaxDraw \/ EmaxReturn

SpecEmax == EmaxInit /\ [][EmaxNext]_vars

(***************************************************************************)
(* interpolate.py: the anchor states of a period                           *)
(***************************************************************************)
\* np.random: one process-wide generator.  np.random.seed(seed) sets its state
\* from the seed alone; every draw advances it.
RngMod == 16
RngStates == 0 .. (RngMod - 1)
RngSeed(seed) == seed % RngMod
RngNext(state) == (5 * state + 3) % RngMod

RECURSIVE SumSeq(_)
SumSeq(q) == IF q = <<>> THEN 0 ELSE Head(q) + SumSeq(Tail(q))

\* the sequence q without its element at position n
Without(q, n) == SubSeq(q, 1, n - 1) \o SubSeq(q, n + 1, Len(q))

RECURSIVE Permute(_, _, _)
\* np.random.choice(n, size, replace=False): size draws from the pool of what
\* is left; the indices drawn and the state the generator is left in
Permute(state, pool, size) ==
    IF size = 0 THEN [picked |-> {}, rng |-> state]
    ELSE LET next == RngNext(state)
             pos == (next % Len(pool)) + 1
             rest == Permute(next, Without(pool, pos), size - 1)
         IN [picked |-> {pool[pos]} \cup rest.picked, rng |-> rest.rng]

\* (variant of _get_not_interpolated_indicator: the generator is not seeded)
_get_not_interpolated_indicator_unseeded(points, n, seed, state) ==
    IF points > n \/ points < 0
    THEN [error |-> "ValueError", not_interpolated |-> <<>>, rng |-> state]
    ELSE LET draw == Permute(state, [x \in 1 .. n |-> x - 1], points)
         IN [error |-> "",
             not_interpolated |-> [x \in 0 .. (n - 1) |-> x \in draw.picked],
             rng |-> draw.rng]

\* _get_not_interpolated_indicator(interpolation_points, n_states, seed), run
\* with the generator in `state`: the indicator, and the generator afterwards
_get_not_interpolated_indicator(points, n, seed, state) ==
    IF points > n \/ points < 0
    THEN [error |-> "ValueError", not_interpolated |-> <<>>, rng |-> RngSeed(seed)]
    ELSE LET draw == Permute(RngSeed(seed), [x \in 1 .. n |-> x - 1], points)
         IN [error |-> "",
             not_interpolated |-> [x \in 0 .. (n - 1) |-> x \in draw.picked],
             rng |-> draw.rng]

\* the dense keys of the period, in the order of the dictionaries
Keys == DOMAIN dense_key_to_n_states

\* (variant of MinimumPoints: one point per dense key)
MinimumPoints_one(n) == IF n > 1 THEN 1 ELSE n

\* the points every dense key receives before the rest is distributed
MinimumPoints(n) == IF n > 2 THEN 2 ELSE n

\* the numbers of states a dense key may have
StateCounts == (1 .. MaxStates) \cup {ManyStates}

SplitInit ==
    /\ EmaxIdle /\ calls = <<>> /\ PredictIdle /\ RespyIdle
    /\ \E nk \in 1 .. MaxKeys : dense_key_to_n_states \in [1 .. nk -> StateCounts]
    /\ options \in [interpolation_points : 0 .. MaxPoints,
                    solution_seed_iteration : 0 .. MaxSeed]
    /\ rng \in 0 .. MaxSeed
    /\ seeds = <<>>
    /\ dense_key_to_interpolation_points = <<>>
    /\ interpolation_points = 0
    /\ n_states = <<>>
    /\ dense_key = Unbound
    /\ drawn = 0
    /\ warned = FALSE
    /\ not_interpolated = <<>>
    /\ split_pc = "seeds"

\* (variant of GetSeeds: the seeds are handed out from the last dense key to
\* the first)
GetSeeds_reversed ==
    /\ split_pc = "seeds"
    /\ seeds' = [key \in Keys |->
                    options.solution_seed_iteration + (Len(dense_key_to_n_states) - key)]
    /\ options' = [options EXCEPT !.solution_seed_iteration = @ + Len(dense_key_to_n_states)]
    /\ split_pc' = "split"
    /\ UNCHANGED <<rng, dense_key_to_n_states, dense_key_to_interpolation_points,
                   interpolation_points, n_states, dense_key, drawn, warned,
                   not_interpolated>>
    /\ UNCHANGED <<emaxVars, calls, predictVars, respyVars>>

\* _get_seeds_to_create_not_interpolate_indicator: one seed per dense key, in
\* the order of the keys
GetSeeds ==
    /\ split_pc = "seeds"
    /\ seeds' = [key \in Keys |-> options.solution_seed_iteration + (key - 1)]
    /\ options' = [options EXCEPT !.solution_seed_iteration = @ + Len(dense_key_to_n_states)]
    /\ split_pc' = "split"
    /\ UNCHANGED <<rng, dense_key_to_n_states, dense_key_to_interpolation_points,
                   interpolation_points, n_states, dense_key, drawn, warned,
                   not_interpolated>>
    /\ UNCHANGED <<emaxVars, calls, predictVars, respyVars>>

\* _split_interpolation_points_evenly up to the loop: two points per dense key,
\* the points left over, the states left per dense key, the seed of the loop
SplitStart ==
    /\ split_pc = "split"
    /\ dense_key_to_interpolation_points' =
          [key \in Keys |-> MinimumPoints(dense_key_to_n_states[key])]
    /\ interpolation_points' = options.interpolation_points - 2 * Len(dense_key_to_n_states)
    /\ n_states' = [key \in Keys |-> IF dense_key_to_n_states[key] - 2 < 0
                                     THEN 0 ELSE dense_key_to_n_states[key] - 2]
    /\ drawn' = 0
    /\ IF interpolation_points' > 0
       THEN /\ rng' = RngSeed(options.solution_seed_iteration)
            /\ options' = [options EXCEPT !.solution_seed_iteration = @ + 1]
            /\ split_pc' = "loop"
       ELSE /\ UNCHANGED <<rng, options>>
            /\ split_pc' = "share"
    /\ UNCHANGED <<dense_key_to_n_states, seeds, dense_key, warned, not_interpolated>>
    /\ UNCHANGED <<emaxVars, calls, predictVars, respyVars>>

\* one pass of the loop: a dense key is drawn with the probability of its share
\* of the states left; with no state left the probabilities are 0 / 0 and
\* np.random.choice raises
SplitDraw ==
    /\ split_pc = "loop"
    /\ IF SumSeq(n_states) = 0
       THEN /\ split_pc' = "ValueError"
            /\ UNCHANGED <<rng, dense_key_to_interpolation_points, n_states,
                           dense_key, drawn>>
       ELSE \E key \in Keys :
               /\ n_states[key] > 0
               /\ dense_key' = key
               /\ rng' = RngNext(rng)
               /\ dense_key_to_interpolation_points' =
                     [dense_key_to_interpolation_points EXCEPT ![key] = @ + 1]
               /\ n_states' = [n_states EXCEPT ![key] = @ - 1]
               /\ drawn' = drawn + 1
               /\ split_pc' = IF drawn + 1 = interpolation_points THEN "share" ELSE "loop"
    /\ UNCHANGED <<options, dense_key_to_n_states, seeds, interpolation_points,
                   warned, not_interpolated>>
    /\ UNCHANGED <<emaxVars, calls, predictVars, respyVars>>

\* the shares, the warning and the return.  The dictionary of the shares is
\* built with `dense_key` as the key of every entry, the name the loop has left
\* bound to the key it drew last (unbound when the loop did not run): it holds
\* one entry, the points of the last dense key of the period over the number
\* of states of `dense_key`.
SplitShare ==
    /\ split_pc = "share"
    /\ IF dense_key = Unbound
       THEN /\ split_pc' = "NameError"
            /\ UNCHANGED warned
       ELSE /\ warned' =
                  \E dense_index \in {Len(dense_key_to_n_states)} :
                      100 * dense_key_to_interpolation_points[dense_index]
                         < dense_key_to_n_states[dense_key]
            /\ split_pc' = "returned"
    /\ UNCHANGED <<options, rng, dense_key_to_n_states, seeds,
                   dense_key_to_interpolation_points, interpolation_points,
                   n_states, dense_key, drawn, not_interpolated>>
    /\ UNCHANGED <<emaxVars, calls, predictVars, respyVars>>

\* _get_not_interpolated_indicator for one dense key that has none yet
Indicator ==
    /\ split_pc = "returned"
    /\ \E key \in Keys \ DOMAIN not_interpolated :
          \E r \in {_get_not_interpolated_indicator(
                        dense_key_to_interpolation_points[key],
                        dense_key_to_n_states[key], seeds[key], rng)} :
             /\ rng' = r.rng
             /\ IF r.error # ""
                THEN /\ split_pc' = r.error
                     /\ UNCHANGED not_interpolated
                ELSE /\ not_interpolated' =
                           [x \in DOMAIN not_interpolated \cup {key} |->
                               IF x = key THEN r.not_interpolated
                                          ELSE not_interpolated[x]]
                     /\ UNCHANGED split_pc
    /\ UNCHANGED <<options, dense_key_to_n_states, seeds,
                   dense_key_to_interpolation_points, interpolation_points,
                   n_states, dense_key, drawn, warned>>
    /\ UNCHANGED <<emaxVars, calls, predictVars, respyVars>>

SplitNext == GetSeeds \/ SplitStart \/ SplitDraw \/ SplitShare \/ Indicator

SpecSplit == SplitInit /\ [][SplitNext]_vars

\* the states a dense key's indicator marks as not interpolated
Anchors(key) == {x \in DOMAIN not_interpolated[key] : not_interpolated[key][x]}

\* C7: every dense key with at least 2 states is returned at least 2 points,
\* and its indicator marks at least 2 states as not interpolated.
C7_AtLeastTwoAnchors ==
    /\ split_pc = "returned" =>
          \A key \in Keys :
             dense_key_to_n_states[key] >= 2 =>
                dense_key_to_interpolation_points[key] >= 2
    /\ \A key \in DOMAIN not_interpolated :
          dense_key_to_n_states[key] >= 2 => Cardinality(Anchors(key)) >= 2

C7_Witness ==
    /\ split_pc = "returned"
    /\ DOMAIN not_interpolated = Keys
    /\ \E key \in Keys :
          /\ dense_key_to_n_states[key] = 2
          /\ Cardinality(Anchors(key)) = 2
    /\ \E key \in Keys :
          /\ dense_key_to_n_states[key] > 3
          /\ dense_key_to_interpolation_points[key] = 3

\* C11: a return goes with the warning exactly when some dense key's points
\* divided by that dense key's own number of states are below 0.01.
C11_WarningIffShareBelowOnePercent ==
    split_pc = "returned" =>
        (warned <=> \E key \in Keys :
                       100 * dense_key_to_interpolation_points[key]
                          < dense_key_to_n_states[key])

\* the seed the loop of _split_interpolation_points_evenly has taken, if any
LoopSeedTaken ==
    IF split_pc \notin {"seeds", "split"} /\ interpolation_points > 0 THEN 1 ELSE 0

\* the indicator of a dense key as its points, its number of states and its
\* seed alone give it, the generator being in state 0 before the call
SeededIndicator(key) ==
    _get_not_interpolated_indicator(dense_key_to_interpolation_points[key],
                                    dense_key_to_n_states[key], seeds[key], 0)

C16_LoopFinishesWithinStates ==
    /\ split_pc # "ValueError"
    /\ \A key \in DOMAIN dense_key_to_interpolation_points :
          dense_key_to_interpolation_points[key] <= dense_key_to_n_states[key]

\* the loop of _split_interpolation_points_evenly was not entered
LoopNotEntered ==
    /\ split_pc \notin {"seeds", "split"}
    /\ interpolation_points <= 0

\* C17: when the loop is not entered the function returns without raising,
\* takes no seed, and gives every dense key min(2, its number of states)
\* points.
C17_NothingLeftReturnsMinimum ==
    LoopNotEntered =>
        /\ split_pc \notin {"NameError", "ValueError"}
        /\ options.solution_seed_iteration = seeds[1] + Len(dense_key_to_n_states)
        /\ \A key \in Keys :
              dense_key_to_interpolation_points[key]
                 = (IF dense_key_to_n_states[key] < 2
                    THEN dense_key_to_n_states[key] ELSE 2)

(***************************************************************************)
(* interpolate.py: two calls of _get_not_interpolated_indicator, with      *)
(* other draws from np.random before and between them                      *)
(***************************************************************************)
IndicatorInit ==
    /\ EmaxIdle /\ PredictIdle /\ RespyIdle
    /\ options = NoValue /\ dense_key_to_n_states = <<>>
    /\ seeds = <<>> /\ dense_key_to_interpolation_points = <<>>
    /\ interpolation_points = 0 /\ n_states = <<>> /\ dense_key = Unbound
    /\ drawn = 0 /\ warned = FALSE /\ not_interpolated = <<>>
    /\ split_pc = "idle"
    /\ rng \in RngStates
    /\ calls = <<>>

\* some other code draws from np.random
OtherDraw ==
    /\ Len(calls) < 2
    /\ rng' = RngNext(rng)
    /\ UNCHANGED calls
    /\ UNCHANGED <<options, dense_key_to_n_states, seeds,
                   dense_key_to_interpolation_points, interpolation_points,
                   n_states, dense_key, drawn, warned, not_interpolated, split_pc>>
    /\ UNCHANGED <<emaxVars, predictVars, respyVars>>

\* a call of _get_not_interpolated_indicator
IndicatorCall ==
    /\ Len(calls) < 2
    /\ \E n \in 1 .. MaxStates, seed \in 0 .. MaxSeed :
          \E points \in 1 .. n :
             \E r \in {_get_not_interpolated_indicator(points, n, seed, rng)} :
                /\ calls' = Append(calls, [interpolation_points |-> points,
                                           n_states |-> n,
                                           seed |-> seed,
                                           rng_before |-> rng,
                                           not_interpolated |-> r.not_interpolated])
                /\ rng' = r.rng
    /\ UNCHANGED <<options, dense_key_to_n_states, seeds,
                   dense_key_to_interpolation_points, interpolation_points,
                   n_states, dense_key, drawn, warned, not_interpolated, split_pc>>
    /\ UNCHANGED <<emaxVars, predictVars, respyVars>>

IndicatorNext == OtherDraw \/ IndicatorCall

SpecIndicator == IndicatorInit /\ [][IndicatorNext]_vars

SameArguments(a, b) ==
    /\ a.interpolation_points = b.interpolation_points
    /\ a.n_states = b.n_states
    /\ a.seed = b.seed

\* C10: two calls with the same interpolation_points, n_states and seed return
\* the same indicator, whatever was drawn before them, and an indicator has
\* one entry per state, exactly interpolation_points of them True.
C10_IndicatorDeterminedBySeed ==
    /\ (Len(calls) = 2 /\ SameArguments(calls[1], calls[2])) =>
          calls[1].not_interpolated = calls[2].not_interpolated
    /\ \A c \in 1 .. Len(calls) :
          /\ DOMAIN calls[c].not_interpolated = 0 .. (calls[c].n_states - 1)
          /\ Cardinality({x \in DOMAIN calls[c].not_interpolated :
                             calls[c].not_interpolated[x]})
                = calls[c].interpolation_points

C10_Witness ==
    /\ Len(calls) = 2
    /\ SameArguments(calls[1], calls[2])
    /\ calls[1].rng_before # calls[2].rng_before
    /\ calls[1].rng_before # RngSeed(calls[1].seed)
    /\ calls[1].interpolation_points = 2
    /\ calls[1].n_states = 4
    /\ calls[1].not_interpolated = calls[2].not_interpolated

(***************************************************************************)
(* interpolate.py: the linear model of one dense key.  A number is finite, *)
(* an infinity or not-a-number, as in IEEE arithmetic.                     *)
(***************************************************************************)
F(n) == <<"fin", n>>
NaN == <<"nan", 0>>
PInf == <<"inf", 1>>
NInf == <<"inf", -1>>
IsFinite(x) == x[1] = "fin"
Sign(n) == IF n > 0 THEN 1 ELSE IF n < 0 THEN -1 ELSE 0

FMul(x, y) ==
    CASE x[1] = "nan" \/ y[1] = "nan" -> NaN
      [] x[1] = "fin" /\ y[1] = "fin" -> F(x[2] * y[2])
      [] Sign(x[2]) * Sign(y[2]) = 0 -> NaN
      [] OTHER -> <<"inf", Sign(x[2]) * Sign(y[2])>>

FAdd(x, y) ==
    CASE x[1] = "nan" \/ y[1] = "nan" -> NaN
      [] x[1] = "fin" /\ y[1] = "fin" -> F(x[2] + y[2])
      [] x[1] = "inf" /\ y[1] = "inf" -> IF x[2] = y[2] THEN x ELSE NaN
      [] x[1] = "inf" -> x
      [] OTHER -> y

\* x >= y; no comparison with not-a-number holds
FGe(x, y) ==
    CASE x[1] = "nan" \/ y[1] = "nan" -> FALSE
      [] x[1] = "fin" /\ y[1] = "fin" -> x[2] >= y[2]
      [] x[1] = "inf" /\ y[1] = "inf" -> x[2] >= y[2]
      [] x[1] = "inf" -> x[2] = 1
      [] OTHER -> y[2] = -1

\* np.clip(x, 0, None)
ClipAtZero(x) ==
    CASE x[1] = "nan" -> NaN
      [] x[1] = "inf" -> IF x[2] = 1 THEN x ELSE F(0)
      [] OTHER -> IF x[2] < 0 THEN F(0) ELSE x

RECURSIVE Dot(_, _)
\* row.dot(b)
Dot(row, b) ==
    IF row = <<>> THEN F(0)
    ELSE FAdd(Dot(SubSeq(row, 1, Len(row) - 1), SubSeq(b, 1, Len(b) - 1)),
              FMul(F(row[Len(row)]), b[Len(b)]))

\* the square root of a square
Sqrt(x) == CHOOSE r \in 0 .. x : r * r = x

\* the value functions of a state under the expected shocks, one per choice
NumChoices == 2
VfRows == {<<3, 3>>, <<3, 2>>, <<1, 5>>}
\* the simulated expected value function of a state
EvfVals == {2, 6}
\* the coefficients ols may return: one per covariate, at most one of them not
\* finite
NumCovariates == 2 * NumChoices + 1
BetaVals == {F(-1), F(2), NaN, PInf, NInf}
BetaVectors ==
    {b \in [1 .. NumCovariates -> BetaVals] :
        Cardinality({c \in 1 .. NumCovariates : ~IsFinite(b[c])}) <= 1}

\* the position of state x among the states the mask selects
MaskRank(m, x) == Cardinality({y \in 1 .. x : m[y]})
MaskCount(m) == Cardinality({y \in DOMAIN m : m[y]})

\* _compute_rhs_variables: exogenous and max_value_functions
_compute_rhs_variables(vf) ==
    LET max_vf == [x \in DOMAIN vf |-> Maximum(vf[x])]
        diff == [x \in DOMAIN vf |-> [c \in 1 .. NumChoices |-> max_vf[x] - vf[x][c]]]
    IN [exogenous |->
           [x \in DOMAIN vf |->
               diff[x] \o [c \in 1 .. NumChoices |-> Sqrt(diff[x][c])] \o <<1>>],
        max_value_functions |-> max_vf]

\* _compute_lhs_variable: endogenous, one entry per state that is not
\* interpolated
_compute_lhs_variable(evf, max_vf, m) ==
    [r \in 1 .. MaskCount(m) |->
        evf[r] - max_vf[CHOOSE x \in DOMAIN m : m[x] /\ MaskRank(m, x) = r]]

\* (variant of _predict_with_linear_model: the predictions of the states that
\* are not interpolated are not overwritten)
_predict_with_linear_model_all(endog, exog, max_vf, m, b) ==
    [x \in DOMAIN m |-> FAdd(ClipAtZero(Dot(exog[x], b)), F(max_vf[x]))]

\* _predict_with_linear_model, with b the coefficients ols returned
_predict_with_linear_model(endog, exog, max_vf, m, b) ==
    LET endogenous_predicted == [x \in DOMAIN m |-> ClipAtZero(Dot(exog[x], b))]
    IN [x \in DOMAIN m |->
          IF m[x] THEN F(endog[MaskRank(m, x)] + max_vf[x])
                  ELSE FAdd(endogenous_predicted[x], F(max_vf[x]))]

PredictInit ==
    /\ EmaxIdle /\ SplitIdle /\ calls = <<>> /\ RespyIdle
    /\ \E n \in 1 .. MaxModelStates :
          /\ value_functions \in [1 .. n -> VfRows]
          /\ mask \in {m \in [1 .. n -> BOOLEAN] :
                          MaskCount(m) >= (IF n < 2 THEN n ELSE 2)}
    /\ expected_value_functions \in [1 .. MaskCount(mask) -> EvfVals]
    /\ exogenous = <<>>
    /\ max_value_functions = <<>>
    /\ endogenous = <<>>
    /\ beta = <<>>
    /\ predictions = <<>>
    /\ beta_warned = FALSE
    /\ predict_pc = "rhs"

\* kw_94_interpolation: _compute_rhs_variables
ComputeRhs ==
    /\ predict_pc = "rhs"
    /\ \E r \in {_compute_rhs_variables(value_functions)} :
          /\ exogenous' = r.exogenous
          /\ max_value_functions' = r.max_value_functions
    /\ predict_pc' = "lhs"
    /\ UNCHANGED <<value_functions, expected_value_functions, mask, endogenous,
                   beta, predictions, beta_warned>>
    /\ UNCHANGED <<emaxVars, splitVars, calls, respyVars>>

\* kw_94_interpolation: _compute_lhs_variable
ComputeLhs ==
    /\ predict_pc = "lhs"
    /\ endogenous' = _compute_lhs_variable(expected_value_functions,
                                           max_value_functions, mask)
    /\ predict_pc' = "predict"
    /\ UNCHANGED <<value_functions, expected_value_functions, mask, exogenous,
                   max_value_functions, beta, predictions, beta_warned>>
    /\ UNCHANGED <<emaxVars, splitVars, calls, respyVars>>

\* kw_94_interpolation: _predict_with_linear_model; ols returns some
\* coefficients
Predict ==
    /\ predict_pc = "predict"
    /\ \E b \in BetaVectors :
          /\ beta' = b
          /\ predictions' = _predict_with_linear_model(endogenous, exogenous,
                                                       max_value_functions, mask, b)
          /\ beta_warned' = ~(\A c \in DOMAIN b : IsFinite(b[c]))
    /\ predict_pc' = "done"
    /\ UNCHANGED <<value_functions, expected_value_functions, mask, exogenous,
                   max_value_functions, endogenous>>
    /\ UNCHANGED <<emaxVars, splitVars, calls, respyVars>>

PredictNext == ComputeRhs \/ ComputeLhs \/ Predict

SpecPredict == PredictInit /\ [][PredictNext]_vars

\* C8: the prediction of a state that is not interpolated is its simulated
\* expected value function, whatever the coefficients.
C8_AnchorsKeepSimulatedValue ==
    predict_pc = "done" =>
        \A x \in DOMAIN mask :
            mask[x] =>
                /\ predictions[x] = F(expected_value_functions[MaskRank(mask, x)])
                /\ predictions[x] = F(endogenous[MaskRank(mask, x)] + max_value_functions[x])

C8_Witness ==
    /\ predict_pc = "done"
    /\ \E x \in DOMAIN mask :
          /\ mask[x]
          /\ MaskRank(mask, x) # x
          /\ predictions[x] = F(expected_value_functions[MaskRank(mask, x)])
          /\ predictions[x] # FAdd(ClipAtZero(Dot(exogenous[x], beta)),
                                   F(max_value_functions[x]))

\* C9: the prediction of an interpolated state is at least its
\* max_value_functions entry, for every coefficient vector.
C9_PredictionAtLeastMaximum ==
    predict_pc = "done" =>
        \A x \in DOMAIN mask :
            ~mask[x] => FGe(predictions[x], F(max_value_functions[x]))

(***************************************************************************)
(* Claims about auxiliary.py (under SpecEmax)                              *)
(***************************************************************************)
\* the state k of the period, and whether schooling is infeasible in it
EmaxState == states_all[period][k]
SchoolingInfeasible == EmaxState[3] >= edu_max - edu_start
LastPeriod == period = num_periods - 1
\* get_total_value has been called at least once
Called == i > 0

RECURSIVE SumUpTo(_, _)
\* f[0] + ... + f[n - 1]
SumUpTo(f, n) == IF n = 0 THEN 0 ELSE f[n - 1] + SumUpTo(f, n - 1)

MaxOf(S) == CHOOSE m \in S : \A x \in S : x <= m

\* the immediate payoff of alternative j under draw row r
ExPost(r, j) ==
    IF j \in {0, 1} THEN payoffs_systematic[j] * eps_relevant_emax[r][j]
                    ELSE payoffs_systematic[j] + eps_relevant_emax[r][j]

\* C1: in every period, the last included, a state in which schooling is
\* infeasible gets the sentinel for schooling, and schooling never attains the
\* maximum of total_payoffs.
C1_InfeasibleSchoolingNeverMaximal ==
    (Called /\ SchoolingInfeasible) =>
        /\ future_payoffs[2] = -HUGE_FLOAT
        /\ total_payoffs[2] < MaxOf({total_payoffs[j] : j \in Alts})

\* C2: with delta = 0 and the sentinel as the future payoff of schooling,
\* total_payoffs[2] is the sentinel itself, and the three other entries are
\* the ex-post payoff plus the discounted future payoff, as computed.
C2_MyopicSentinelExact ==
    (Called /\ delta = 0 /\ future_payoffs[2] = -HUGE_FLOAT) =>
        /\ total_payoffs[2] = -HUGE_FLOAT
        /\ total_payoffs[2] # payoffs_ex_post[2]
        /\ \A j \in Alts \ {2} :
              total_payoffs[j] = payoffs_ex_post[j] + Discounted(delta, future_payoffs[j])

C2_Witness ==
    /\ Called /\ delta = 0 /\ future_payoffs[2] = -HUGE_FLOAT
    /\ \A j \in Alts \ {2} : payoffs_ex_post[2] > payoffs_ex_post[j]
    /\ total_payoffs[2] = -HUGE_FLOAT

\* the indices, in the next period, of the four successor states of state k
SuccessorCells ==
    LET s == EmaxState
    IN {<<period + 1, mapping_state_idx[period + 1][t]>> :
          t \in {<<s[1] + 1, s[2], s[3], 0>>, <<s[1], s[2] + 1, s[3], 0>>,
                 <<s[1], s[2], s[3] + 1, 1>>, <<s[1], s[2], s[3], 0>>}
                \cap StateSet(period + 1)}

\* C3: periods_emax is read only at row period + 1, at the indices of the
\* successor states of k; in the last period it is not read at all; it is
\* never written.
C3_ReadsOnlyNextPeriod ==
    /\ LastPeriod => emax_reads = {}
    /\ ~LastPeriod => emax_reads \subseteq SuccessorCells
    /\ \A c \in emax_reads : c[1] = period + 1
    /\ periods_emax = emax_passed

C3_Witness ==
    /\ emax_pc = "done" /\ period = 0 /\ Cardinality(emax_reads) = 4
    /\ delta # 0

\* C4: in the last period the future payoffs are 0 for all four alternatives
\* and total_payoffs equals payoffs_ex_post, whatever delta and periods_emax.
C4_LastPeriodNoFuture ==
    (Called /\ LastPeriod) =>
        /\ future_payoffs = [j \in Alts |-> 0]
        /\ total_payoffs = payoffs_ex_post

C4_Witness ==
    /\ Called /\ LastPeriod /\ delta = 0 /\ SchoolingInfeasible
    /\ total_payoffs = payoffs_ex_post
    /\ \E p \in Periods : \E c \in DOMAIN periods_emax[p] : periods_emax[p][c] # 0

\* the alternatives an agent may choose in state k
Admissible == IF SchoolingInfeasible THEN Alts \ {2} ELSE Alts

\* C5: for delta = 0 simulate_emax returns the average over the draws of the
\* largest immediate payoff among the admissible alternatives, whatever
\* periods_emax holds.
C5_MyopicAverageOfImmediateMaximum ==
    (emax_pc = "done" /\ delta = 0) =>
        emax_returned =
            Quotient(SumUpTo([r \in 0 .. (num_draws - 1) |->
                                 MaxOf({ExPost(r, j) : j \in Admissible})],
                             num_draws),
                     num_draws)

\* C6 as stated: the total of alternative j under draw row r is its immediate
\* payoff plus delta times its future payoff, and simulate_emax returns the
\* average over all rows of the largest total.
C6_AverageOfMaximumAsStated ==
    (emax_pc = "done") =>
        emax_returned =
            Quotient(SumUpTo([r \in 0 .. (num_draws - 1) |->
                                 MaxOf({ExPost(r, j) + Discounted(delta, future_payoffs[j]) :
                                        j \in Alts})],
                             num_draws),
                     num_draws)

\* the total of alternative j under draw row r, the myopic case included
TotalOf(r, j) ==
    IF delta = 0 /\ j = 2 /\ future_payoffs[2] = -HUGE_FLOAT
    THEN -HUGE_FLOAT
    ELSE ExPost(r, j) + Discounted(delta, future_payoffs[j])

\* C6, amended: as stated, except that for delta = 0 and a future payoff of
\* schooling equal to the sentinel, the total of schooling is the sentinel.
C6_AverageOfMaximum ==
    (emax_pc = "done") =>
        emax_returned =
            Quotient(SumUpTo([r \in 0 .. (num_draws - 1) |->
                                 MaxOf({TotalOf(r, j) : j \in Alts})],
                             num_draws),
                     num_draws)

C6_Witness ==
    /\ emax_pc = "done" /\ num_draws >= 2 /\ delta = 1 /\ ~LastPeriod
    /\ eps_relevant_emax[0] # eps_relevant_emax[1]
    /\ emax_returned[2] = 2

(***************************************************************************)
(* clsRespy.py: a RespyCls instance.  self.attr is a record; a method       *)
(* returns the attr it leaves, the exception it raised ("" for none) and    *)
(* the value it returned (<<>> for none).                                   *)
(***************************************************************************)
NoneValue == "None"
solution_attributes ==
    {"periods_rewards_systematic", "states_number_period", "mapping_state_idx",
     "periods_emax", "states_all"}
derived_attributes == {"is_myopic", "num_paras"}
invalid_attr == derived_attributes \cup {"optim_paras", "init_dict"}

\* the keys of self.attr
AttrKeys ==
    {"is_locked", "is_solved", "version", "num_types", "optim_paras"}
        \cup derived_attributes \cup solution_attributes
\* the keys a caller may pass: those of self.attr, one that must not be
\* modified and is not in self.attr, and one self.attr does not hold
CallKeys == AttrKeys \cup {"init_dict", "unknown"}

\* the values a caller may pass to set_attr for a key
Values(a, key) ==
    CASE key \in {"is_locked", "is_solved"} -> BOOLEAN
      [] key \in solution_attributes -> {NoneValue, "solution"}
      [] key = "version" -> {"PYTHON", "FORTRAN"}
      [] key \in AttrKeys -> {a[key]}
      [] OTHER -> {NoneValue}

Returns(a, value) == [attr |-> a, raised |-> "", returned |-> <<value>>]
Completes(a) == [attr |-> a, raised |-> "", returned |-> <<>>]
Raises(a, exception) == [attr |-> a, raised |-> exception, returned |-> <<>>]

_update_derived_attributes(a) ==
    [a EXCEPT !.is_myopic = (a.optim_paras.delta = 0),
              !.num_paras = 53 + (a.num_types - 1) * 6]

\* _initialize_solution_attributes, and the loop of reset
_initialize_solution_attributes(a) ==
    [key \in DOMAIN a |-> IF key \in solution_attributes THEN NoneValue ELSE a[key]]

reset(a) == [_initialize_solution_attributes(a) EXCEPT !.is_solved = FALSE]

\* (variant of lock: the assertion on is_locked is left out)
lock_unasserted(a, checks_pass) ==
    LET b == _update_derived_attributes(a)
    IN IF ~checks_pass THEN Raises(b, "AssertionError")
       ELSE Completes([b EXCEPT !.is_locked = TRUE])

\* lock; checks_pass is whether _check_model_attributes and
\* _check_model_solution find nothing wrong
lock(a, checks_pass) ==
    IF a.is_locked THEN Raises(a, "AssertionError")
    ELSE LET b == _update_derived_attributes(a)
         IN IF ~checks_pass THEN Raises(b, "AssertionError")
            ELSE Completes([b EXCEPT !.is_locked = TRUE])

unlock(a) ==
    IF ~a.is_locked THEN Raises(a, "AssertionError")
    ELSE Completes([a EXCEPT !.is_locked = FALSE])

\* (variant of get_attr: a solution attribute is returned whether or not the
\* model is solved)
get_attr_unsolved(a, key) ==
    IF ~a.is_locked THEN Raises(a, "AssertionError")
    ELSE IF key \notin DOMAIN a THEN Raises(a, "AssertionError")
    ELSE Returns(a, a[key])

get_attr(a, key) ==
    IF ~a.is_locked THEN Raises(a, "AssertionError")
    ELSE IF key \notin DOMAIN a THEN Raises(a, "AssertionError")
    ELSE IF key \in solution_attributes /\ ~a.is_solved
    THEN Raises(a, "AssertionError")
    ELSE Returns(a, a[key])

set_attr(a, key, value) ==
    IF a.is_locked THEN Raises(a, "AssertionError")
    ELSE IF key \notin DOMAIN a THEN Raises(a, "AssertionError")
    ELSE IF key \in invalid_attr THEN Raises(a, "AssertionError")
    ELSE IF key \in solution_attributes /\ a.is_solved
    THEN Raises(a, "AssertionError")
    ELSE Completes(_update_derived_attributes([a EXCEPT ![key] = value]))

\* update_optim_paras, with the discount factor x_econ holds
update_optim_paras(a, x_delta) ==
    Completes([reset(a) EXCEPT !.optim_paras = [delta |-> x_delta]])

\* add_solution: the solution is attached to the instance
add_solution(a) ==
    [key \in DOMAIN a |-> IF key \in solution_attributes THEN "solution" ELSE a[key]]

\* simulate, from the solution the interface returns onwards
simulate(a, checks_pass) ==
    LET attached == add_solution(a)
        unlocked == unlock(attached)
    IN IF unlocked.raised # "" THEN unlocked
       ELSE LET solved == set_attr(unlocked.attr, "is_solved", TRUE)
            IN IF solved.raised # "" THEN solved
               ELSE lock(solved.attr, checks_pass)

\* the instances __init__ may leave
ConstructedAttrs ==
    {lock(_update_derived_attributes(
             _initialize_solution_attributes(
                [key \in AttrKeys |->
                    CASE key = "version" -> version
                      [] key = "num_types" -> 1
                      [] key = "optim_paras" -> [delta |-> x_delta]
                      [] key \in {"is_locked", "is_solved", "is_myopic"} -> FALSE
                      [] key = "num_paras" -> 0
                      [] OTHER -> NoneValue])), TRUE).attr :
        version \in {"PYTHON", "FORTRAN"}, x_delta \in {0, 1}}

\* the record of the method called last
Op(name, key, before, result) ==
    [op |-> name, key |-> key, before |-> before,
     raised |-> result.raised, returned |-> result.returned]

ClsInit ==
    /\ EmaxIdle /\ SplitIdle /\ calls = <<>> /\ PredictIdle
    /\ fit_pc = <<>> /\ fit_attr = <<>> /\ atexit_registered = <<>>
    /\ scratch = FALSE /\ est_log = FALSE
    /\ attr \in ConstructedAttrs
    /\ cls_op = Op("__init__", "", attr, Completes(attr))

ClsFrame ==
    /\ UNCHANGED <<fit_pc, fit_attr, atexit_registered, scratch, est_log>>
    /\ UNCHANGED <<emaxVars, splitVars, calls, predictVars>>

Lock ==
    /\ \E checks_pass \in BOOLEAN :
          \E r \in {lock(attr, checks_pass)} :
             /\ attr' = r.attr
             /\ cls_op' = Op("lock", "", attr, r)
    /\ ClsFrame

Unlock ==
    /\ \E r \in {unlock(attr)} :
          /\ attr' = r.attr
          /\ cls_op' = Op("unlock", "", attr, r)
    /\ ClsFrame

GetAttr ==
    /\ \E key \in CallKeys :
          \E r \in {get_attr(attr, key)} :
             /\ attr' = r.attr
             /\ cls_op' = Op("get_attr", key, attr, r)
    /\ ClsFrame

SetAttr ==
    /\ \E key \in CallKeys :
          \E value \in Values(attr, key) :
             \E r \in {set_attr(attr, key, value)} :
                /\ attr' = r.attr
                /\ cls_op' = Op("set_attr", key, attr, r)
    /\ ClsFrame

Reset ==
    /\ attr' = reset(attr)
    /\ cls_op' = Op("reset", "", attr, Completes(attr'))
    /\ ClsFrame

UpdateOptimParas ==
    /\ \E x_delta \in {0, 1} :
          \E r \in {update_optim_paras(attr, x_delta)} :
             /\ attr' = r.attr
             /\ cls_op' = Op("update_optim_paras", "", attr, r)
    /\ ClsFrame

Simulate ==
    /\ \E checks_pass \in BOOLEAN :
          \E r \in {simulate(attr, checks_pass)} :
             /\ attr' = r.attr
             /\ cls_op' = Op("simulate", "", attr, r)
    /\ ClsFrame

ClsNext ==
    Lock \/ Unlock \/ GetAttr \/ SetAttr \/ Reset \/ UpdateOptimParas \/ Simulate

SpecCls == ClsInit /\ [][ClsNext]_vars

Succeeded == cls_op.raised = ""

\* C14: lock succeeds only on an unlocked instance and unlock only on a locked
\* one; a lock on a locked instance and an unlock on an unlocked one raise
\* AssertionError and leave attr as it was; get_attr succeeds only on a locked
\* instance, set_attr only on an unlocked one.
C14_LockDiscipline ==
    /\ (cls_op.op = "lock" /\ Succeeded) => ~cls_op.before.is_locked
    /\ (cls_op.op = "unlock" /\ Succeeded) => cls_op.before.is_locked
    /\ (cls_op.op = "lock" /\ cls_op.before.is_locked) =>
          cls_op.raised = "AssertionError" /\ attr = cls_op.before
    /\ (cls_op.op = "unlock" /\ ~cls_op.before.is_locked) =>
          cls_op.raised = "AssertionError" /\ attr = cls_op.before
    /\ (cls_op.op = "get_attr" /\ Succeeded) => cls_op.before.is_locked
    /\ (cls_op.op = "set_attr" /\ Succeeded) => ~cls_op.before.is_locked

\* a lock of an instance that set_attr('is_locked', True) has locked fails
C14_Witness ==
    /\ cls_op.op = "lock"
    /\ cls_op.before.is_locked
    /\ cls_op.before.is_solved
    /\ cls_op.before.periods_emax = NoneValue
    /\ cls_op.raised = "AssertionError"
    /\ attr = cls_op.before

\* the method called last was get_attr of a solution attribute
SolutionRead == cls_op.op = "get_attr" /\ cls_op.key \in solution_attributes

\* a read of a solution attribute succeeds only on a solved instance, and
\* reset and update_optim_paras leave every solution attribute None and
\* is_solved False
ReadsGuarded ==
    /\ (SolutionRead /\ Succeeded) => cls_op.before.is_solved
    /\ cls_op.op \in {"reset", "update_optim_paras"} =>
          /\ \A key \in solution_attributes : attr[key] = NoneValue
          /\ ~attr.is_solved

\* C15 as stated: a read of a solution attribute succeeds only while is_solved
\* is True; reset and update_optim_paras leave every solution attribute None
\* and is_solved False; and from then on is_solved becomes True, so that such
\* reads succeed again, only by a simulate.
C15_SolutionReadsUntilSimulate ==
    [][/\ ReadsGuarded'
       /\ (~attr.is_solved /\ attr'.is_solved) => cls_op'.op = "simulate"]_vars

\* C15, amended: as stated, except that is_solved becomes True again by a
\* simulate or by set_attr('is_solved', True) on the unlocked instance.
C15_SolutionReadsUntilSolved ==
    [][/\ ReadsGuarded'
       /\ (~attr.is_solved /\ attr'.is_solved) =>
             \/ cls_op'.op = "simulate"
             \/ /\ cls_op'.op = "set_attr"
                /\ cls_op'.key = "is_solved"
                /\ ~attr.is_locked]_vars

\* a solved instance that holds a solution has been reset by
\* update_optim_paras
C15_Witness ==
    /\ cls_op.op = "update_optim_paras"
    /\ cls_op.before.is_locked
    /\ cls_op.before.is_solved
    /\ \A key \in solution_attributes : cls_op.before[key] = "solution"
    /\ \A key \in solution_attributes : attr[key] = NoneValue
    /\ ~attr.is_solved

(***************************************************************************)
(* clsRespy.py: fit in two processes that share a working directory.  Each *)
(* process has its own RespyCls instance; the files of the directory are   *)
(* shared, and every access to a file is a step of its own.                *)
(***************************************************************************)
Procs == {1, 2}

\* the instances fit may be called on: as constructed, solved, or unlocked
FitAttrs ==
    ConstructedAttrs
        \cup {simulate(a, TRUE).attr : a \in ConstructedAttrs}
        \cup {unlock(a).attr : a \in ConstructedAttrs}

FitInit ==
    /\ EmaxIdle /\ SplitIdle /\ calls = <<>> /\ PredictIdle
    /\ attr = <<>> /\ cls_op = <<>>
    /\ fit_pc = [p \in Procs |-> "fit"]
    /\ fit_attr \in [Procs -> FitAttrs]
    /\ atexit_registered = [p \in Procs |-> FALSE]
    /\ scratch \in BOOLEAN
    /\ est_log \in BOOLEAN

FitFrame ==
    /\ UNCHANGED <<attr, cls_op>>
    /\ UNCHANGED <<emaxVars, splitVars, calls, predictVars>>

\* fit: the cleanup of the log files, and the reset of a solved instance
FitCleanup(p) ==
    /\ fit_pc[p] = "fit"
    /\ est_log' = FALSE
    /\ \E r \in {get_attr(fit_attr[p], "is_solved")} :
          IF r.raised # ""
          THEN /\ fit_pc' = [fit_pc EXCEPT ![p] = r.raised]
               /\ UNCHANGED fit_attr
          ELSE /\ fit_pc' = [fit_pc EXCEPT ![p] = "check_estimation"]
               /\ fit_attr' = [fit_attr EXCEPT ![p] =
                                  IF r.returned[1] THEN reset(@) ELSE @]
    /\ UNCHANGED <<atexit_registered, scratch>>
    /\ FitFrame

\* check_estimation; inputs_valid is whether a parameter is free, the
\* dataset exists and the optimizer is a valid one
check_estimation(a, scratch_exists, inputs_valid) ==
    IF get_attr(a, "is_locked").raised # "" THEN "AssertionError"
    ELSE IF scratch_exists THEN "AssertionError"
    ELSE IF ~inputs_valid THEN "UserError"
    ELSE ""

FitCheckEstimation(p) ==
    /\ fit_pc[p] = "check_estimation"
    /\ \E inputs_valid \in BOOLEAN :
          \E raised \in {check_estimation(fit_attr[p], scratch, inputs_valid)} :
             fit_pc' = [fit_pc EXCEPT ![p] = IF raised # "" THEN raised ELSE "checked"]
    /\ UNCHANGED <<fit_attr, atexit_registered, scratch, est_log>>
    /\ FitFrame

\* fit: remove_scratch is registered with atexit, and the scratch file is
\* created
FitCreateScratch(p) ==
    /\ fit_pc[p] = "checked"
    /\ atexit_registered' = [atexit_registered EXCEPT ![p] = TRUE]
    /\ scratch' = TRUE
    /\ fit_pc' = [fit_pc EXCEPT ![p] = "estimating"]
    /\ UNCHANGED <<fit_attr, est_log>>
    /\ FitFrame

\* fit: the estimation, which writes its log files
FitEstimate(p) ==
    /\ fit_pc[p] = "estimating"
    /\ est_log' = TRUE
    /\ fit_pc' = [fit_pc EXCEPT ![p] = "estimated"]
    /\ UNCHANGED <<fit_attr, atexit_registered, scratch>>
    /\ FitFrame

\* fit: remove_scratch('.estimation.respy.scratch'), and the return
FitRemoveScratch(p) ==
    /\ fit_pc[p] = "estimated"
    /\ scratch' = FALSE
    /\ fit_pc' = [fit_pc EXCEPT ![p] = "returned"]
    /\ UNCHANGED <<fit_attr, atexit_registered, est_log>>
    /\ FitFrame

\* the process ends: remove_scratch runs if fit has registered it
FitExit(p) ==
    /\ fit_pc[p] \in {"returned", "AssertionError", "UserError"}
    /\ scratch' = IF atexit_registered[p] THEN FALSE ELSE scratch
    /\ fit_pc' = [fit_pc EXCEPT ![p] = "exited"]
    /\ UNCHANGED <<fit_attr, atexit_registered, est_log>>
    /\ FitFrame

FitNext ==
    \E p \in Procs :
        \/ FitCleanup(p)
        \/ FitCheckEstimation(p)
        \/ FitCreateScratch(p)
        \/ FitEstimate(p)
        \/ FitRemoveScratch(p)
        \/ FitExit(p)

SpecFit == FitInit /\ [][FitNext]_vars

\* process p is between passing check_estimation and removing the scratch
\* file
EstimationInProgress(p) == fit_pc[p] \in {"checked", "estimating", "estimated"}

\* C13: the two processes are never both between passing check_estimation
\* and removing '.estimation.respy.scratch'.
C13_OneEstimationPerDirectory ==
    ~(EstimationInProgress(1) /\ EstimationInProgress(2))

====
